---------------------------- MODULE Spec2Model ----------------------------
(***************************************************************************)
(* Telemetry reconciliation core of the motor dashboard                    *)
(* (MainDashboard.tsx, and the same code in the App component):            *)
(* the readings buffer and its NewReading updater, the derived extrema,    *)
(* the reconnect policy, and the useEffect([maxReadings]) that owns the    *)
(* snapshot fetch and the SignalR hub of each generation.                  *)
(***************************************************************************)
EXTENDS Integers, Sequences, FiniteSets, TLC

VARIABLES
    readings,          \* useState<MotorReading[]>: the buffer, index 1 = readings[0]
    alerts,            \* useState<Alert[]>
    alert,             \* useState(""): the local advisory, <<>> for ""
    loading,           \* useState(true)
    signalRConnected,  \* useState(false)
    maxReadings,       \* useState(100): the configured capacity
    mounted,           \* the component is mounted (its effect cleanup has not run for unmount)
    gen,               \* number of times the effect body has run; hub gen is the current one
    hubState,          \* per hub: HubConnectionState, "Unbuilt" before the effect run that builds it
    connectionStarted, \* per hub: start() has completed and the close callbacks have not run
    startTimer,        \* per hub: the setTimeout(..., 100) callback is pending
    snapshotPending,   \* per hub generation: the axios.get of the snapshot is in flight
    hubCap,            \* per hub: the maxReadings captured by the closure of its handlers
    lastOp,            \* what the last write of readings was: "mount", "snapshot" or the updater's branch;
                       \* in the registry specification, what the last write of alerts was
    retryContext,      \* SignalR RetryContext handed to the reconnect policy
    retryDelay,        \* the delay the policy returned for retryContext
    dashboardStats,    \* useState<DashboardStats | null>: the request whose response is stored, 0 for null
    statsIssued,       \* number of GET /api/motor/stats requests issued and followed by the model
    statsInFlight      \* the followed requests that have not been answered yet

coreVars == <<readings, alerts, alert, loading, signalRConnected, maxReadings>>
hubVars == <<mounted, gen, hubState, connectionStarted, startTimer, snapshotPending, hubCap>>
retryVars == <<retryContext, retryDelay>>
statsVars == <<dashboardStats, statsIssued, statsInFlight>>
vars == <<readings, alerts, alert, loading, signalRConnected, maxReadings,
          mounted, gen, hubState, connectionStarted, startTimer, snapshotPending,
          hubCap, lastOp, retryContext, retryDelay,
          dashboardStats, statsIssued, statsInFlight>>

---------------------------------------------------------------------------
(* Bounds of the model *)

\* effect runs of the orchestrator
MaxGen == 2
\* largest maxReadings the settings choose in the orchestrator
MaxSetting == 2
\* samples the device has stored and pushes in the orchestrator
MaxSample == 2
\* longest snapshot response
MaxSnapshot == 2
\* largest capacity of the reconciler alone
MaxCap == 3
\* ids and timestamps of the reconciler alone
MaxId == 3
\* failed reconnect attempts in a row
MaxRetry == 8
\* alert ids of the registry specification
MaxAlert == 3
\* readings of the tier specification
MaxTierSample == 2
\* ids and timestamps of the advisory specification
MaxAdvisoryKey == 2
\* stats requests the model follows from issue to answer
MaxStatsRequests == 3

Hubs == 1..MaxGen
Settings == 1..MaxSetting
Capacities == 1..MaxCap
Ids == 1..MaxId
Timestamps == 1..MaxId

Min(a, b) == IF a < b THEN a ELSE b

---------------------------------------------------------------------------
(* MotorReading: the fields the core reads *)

Temperatures == {20, 90}
Speeds == {1000, 3500}

MotorReading(i, t, c, s) == [id |-> i, timestamp |-> t, temperature |-> c, speed |-> s]

\* readings with every id and every timestamp, one payload
KeyedReadings == {MotorReading(i, t, 60, 2000) : i \in Ids, t \in Timestamps}

\* readings as the device emits them: its own timestamp per sample
DeviceReadings == {MotorReading(i, i, 60, 2000) : i \in 1..MaxSample}

---------------------------------------------------------------------------
(* Array helpers with JavaScript semantics, indices shifted by one *)

\* Array.prototype.findIndex over ids: first match, 0 for -1
FindIndexById(r, id) ==
    IF \E k \in 1..Len(r) : r[k].id = id
    THEN CHOOSE k \in 1..Len(r) : r[k].id = id /\ \A j \in 1..(k - 1) : r[j].id # id
    ELSE 0

\* Array.prototype.findIndex over timestamps: first match, 0 for -1
FindIndexByTimestamp(r, ts) ==
    IF \E k \in 1..Len(r) : r[k].timestamp = ts
    THEN CHOOSE k \in 1..Len(r) : r[k].timestamp = ts /\ \A j \in 1..(k - 1) : r[j].timestamp # ts
    ELSE 0

\* slice that forgets to truncate
SliceKeepsAll(s, n) == s

\* slice that keeps the last n elements instead of the first n
SliceKeepsTail(s, n) == SubSeq(s, Len(s) - Min(n, Len(s)) + 1, Len(s))

\* Array.prototype.slice(0, n) for n >= 0
Slice(s, n) == SubSeq(s, 1, Min(n, Len(s)))

---------------------------------------------------------------------------
(* The setReadings updater of hub.on("NewReading") *)

UpsertBranch(r, reading) ==
    IF FindIndexById(r, reading.id) # 0 THEN "replaceId"
    ELSE IF FindIndexByTimestamp(r, reading.timestamp) # 0 THEN "replaceTimestamp"
    ELSE "prepend"

\* sequence r without its element at index k
RemoveAt(r, k) == SubSeq(r, 1, k - 1) \o SubSeq(r, k + 1, Len(r))

\* updater without the id check
UpsertSkipsIdCheck(r, reading, cap) ==
    LET timestampIndex == FindIndexByTimestamp(r, reading.timestamp)
    IN  IF timestampIndex # 0
        THEN [r EXCEPT ![timestampIndex] = reading]
        ELSE Slice(<<reading>> \o r, cap)

\* updater that moves an id hit to the front
UpsertMovesIdHitToFront(r, reading, cap) ==
    LET existingIndex == FindIndexById(r, reading.id)
        timestampIndex == FindIndexByTimestamp(r, reading.timestamp)
    IN  IF existingIndex # 0
        THEN <<reading>> \o RemoveAt(r, existingIndex)
        ELSE IF timestampIndex # 0
             THEN [r EXCEPT ![timestampIndex] = reading]
             ELSE Slice(<<reading>> \o r, cap)

\* updater that moves a timestamp hit to the front
UpsertMovesTimestampHitToFront(r, reading, cap) ==
    LET existingIndex == FindIndexById(r, reading.id)
        timestampIndex == FindIndexByTimestamp(r, reading.timestamp)
    IN  IF existingIndex # 0
        THEN [r EXCEPT ![existingIndex] = reading]
        ELSE IF timestampIndex # 0
             THEN <<reading>> \o RemoveAt(r, timestampIndex)
             ELSE Slice(<<reading>> \o r, cap)

\* updater that prepends without looking for the reading
UpsertAlwaysPrepends(r, reading, cap) == Slice(<<reading>> \o r, cap)

\* updater that checks the timestamp before the id
UpsertTimestampFirst(r, reading, cap) ==
    LET existingIndex == FindIndexById(r, reading.id)
        timestampIndex == FindIndexByTimestamp(r, reading.timestamp)
    IN  IF timestampIndex # 0
        THEN [r EXCEPT ![timestampIndex] = reading]
        ELSE IF existingIndex # 0
             THEN [r EXCEPT ![existingIndex] = reading]
             ELSE Slice(<<reading>> \o r, cap)

Upsert(r, reading, cap) ==
    LET existingIndex == FindIndexById(r, reading.id)
        timestampIndex == FindIndexByTimestamp(r, reading.timestamp)
    IN  IF existingIndex # 0
        THEN [r EXCEPT ![existingIndex] = reading]
        ELSE IF timestampIndex # 0
             THEN [r EXCEPT ![timestampIndex] = reading]
             ELSE Slice(<<reading>> \o r, cap)

\* loadDashboardStats() up to its await: the request goes out. The model
\* follows the first MaxStatsRequests requests to their answers; a request
\* issued after those is not followed.
LoadDashboardStats ==
    IF statsIssued < MaxStatsRequests
    THEN /\ statsIssued' = statsIssued + 1
         /\ statsInFlight' = statsInFlight \cup {statsIssued + 1}
         /\ UNCHANGED dashboardStats
    ELSE UNCHANGED statsVars

\* a handler whose advisory threshold includes 80
NewReadingHandlerFrom80(reading, cap) ==
    /\ readings' = Upsert(readings, reading, cap)
    /\ lastOp' = UpsertBranch(readings, reading)
    /\ LoadDashboardStats
    /\ alert' = IF reading.temperature >= 80 THEN <<"High Temp", reading.temperature>> ELSE alert

\* the body of the NewReading handler: updater, stats request, advisory
NewReadingHandler(reading, cap) ==
    /\ readings' = Upsert(readings, reading, cap)
    /\ lastOp' = UpsertBranch(readings, reading)
    /\ LoadDashboardStats
    /\ alert' = IF reading.temperature > 80 THEN <<"High Temp", reading.temperature>> ELSE alert

---------------------------------------------------------------------------
(* Derived extrema: readings.length ? readings.reduce(...) : null *)

Null == [id |-> 0, timestamp |-> 0, temperature |-> 0, speed |-> 0]

\* the reducer callbacks: a is the accumulator, b the current element
Pick(which, a, b) ==
    CASE which = "highestTemp" -> IF a.temperature > b.temperature THEN a ELSE b
      [] which = "lowestTemp"  -> IF a.temperature < b.temperature THEN a ELSE b
      [] which = "highestRpm"  -> IF a.speed > b.speed THEN a ELSE b
      [] which = "lowestRpm"   -> IF a.speed < b.speed THEN a ELSE b

\* Array.prototype.reduce without an initial value: the accumulator starts
\* as the first element and the callback runs from the second one on
RECURSIVE ReduceFrom(_, _, _, _)
ReduceFrom(which, r, k, acc) ==
    IF k > Len(r) THEN acc ELSE ReduceFrom(which, r, k + 1, Pick(which, acc, r[k]))

\* an extremum that reports the first entry without reducing
ExtremumOfFirst(which, r) == IF Len(r) # 0 THEN r[1] ELSE Null

Extremum(which, r) == IF Len(r) # 0 THEN ReduceFrom(which, r, 2, r[1]) ELSE Null

highestTemp == Extremum("highestTemp", readings)
lowestTemp == Extremum("lowestTemp", readings)
highestRpm == Extremum("highestRpm", readings)
lowestRpm == Extremum("lowestRpm", readings)

---------------------------------------------------------------------------
(* The tier shown under each extremum: the nested conditionals of the      *)
(* analytics cards.                                                        *)

\* a highest-temperature tier whose critical threshold includes 85
HighestTempTierInclusive(t) ==
    IF t >= 85 THEN "critical" ELSE IF t > 75 THEN "warning" ELSE "normal"

\* highestTemp.temperature > 85 ? Critical : > 75 ? Warning : Normal
HighestTempTier(t) ==
    IF t > 85 THEN "critical" ELSE IF t > 75 THEN "warning" ELSE "normal"

\* lowestTemp.temperature < 30 ? Cold : < 50 ? Optimal : Warm
LowestTempTier(t) ==
    IF t < 30 THEN "cold" ELSE IF t < 50 THEN "optimal" ELSE "warm"

\* highestRpm.speed > 3000 ? Overload : > 2500 ? High : > 1500 ? Optimal : Low
HighestRpmTier(s) ==
    IF s > 3000 THEN "overload"
    ELSE IF s > 2500 THEN "high"
    ELSE IF s > 1500 THEN "optimal"
    ELSE "low"

\* lowestRpm.speed < 500 ? Stall Risk : < 1000 ? Low : < 1500 ? Idle : Normal
LowestRpmTier(s) ==
    IF s < 500 THEN "stallRisk"
    ELSE IF s < 1000 THEN "low"
    ELSE IF s < 1500 THEN "idle"
    ELSE "normal"

---------------------------------------------------------------------------
(* withAutomaticReconnect({ nextRetryDelayInMilliseconds }) *)

RECURSIVE Pow2(_)
Pow2(n) == IF n = 0 THEN 1 ELSE 2 * Pow2(n - 1)

\* policy without the cap
RetryDelayUncapped(ctx) ==
    IF ctx.previousRetryCount = 0 THEN 0 ELSE 1000 * Pow2(ctx.previousRetryCount)

\* policy without the immediate first retry
RetryDelayNoImmediate(ctx) == Min(1000 * Pow2(ctx.previousRetryCount), 30000)

nextRetryDelayInMilliseconds(ctx) ==
    IF ctx.previousRetryCount = 0
    THEN 0
    ELSE Min(1000 * Pow2(ctx.previousRetryCount), 30000)

---------------------------------------------------------------------------
(* State after the first run of the effect body. maxReadings starts at    *)
(* 100 in the code; the model starts it at any of its small settings.     *)

InitCore ==
    /\ readings = <<>>
    /\ alerts = <<>>
    /\ alert = <<>>
    /\ loading = TRUE
    /\ signalRConnected = FALSE
    /\ maxReadings \in Settings
    /\ lastOp = "mount"

InitHubs ==
    /\ mounted = TRUE
    /\ gen = 1
    /\ hubState = [h \in Hubs |-> IF h = 1 THEN "Disconnected" ELSE "Unbuilt"]
    /\ connectionStarted = [h \in Hubs |-> FALSE]
    /\ startTimer = [h \in Hubs |-> h = 1]
    /\ snapshotPending = [h \in Hubs |-> h = 1]
    /\ hubCap = [h \in Hubs |-> IF h = 1 THEN maxReadings ELSE 0]

InitRetry ==
    /\ retryContext = [previousRetryCount |-> 0, elapsedMilliseconds |-> 0]
    /\ retryDelay = 0

\* loadDashboardStats() of the first effect run has issued its request
InitStats ==
    /\ dashboardStats = 0
    /\ statsIssued = 1
    /\ statsInFlight = {1}

\* the stats requests are not followed: those issued so far have failed
StatsNotFollowed ==
    /\ dashboardStats = 0
    /\ statsIssued = MaxStatsRequests
    /\ statsInFlight = {}

---------------------------------------------------------------------------
(* The reconciler alone: one connected hub pushing readings with arbitrary *)
(* ids and timestamps into an empty buffer, capacity fixed.                *)

\* the snapshot fetch has failed, the hub has connected
InitConnected ==
    /\ readings = <<>>
    /\ alerts = <<>>
    /\ alert = <<>>
    /\ loading = FALSE
    /\ signalRConnected = TRUE
    /\ maxReadings \in Capacities
    /\ lastOp = "mount"
    /\ mounted = TRUE
    /\ gen = 1
    /\ hubState = [h \in Hubs |-> IF h = 1 THEN "Connected" ELSE "Unbuilt"]
    /\ connectionStarted = [h \in Hubs |-> h = 1]
    /\ startTimer = [h \in Hubs |-> FALSE]
    /\ snapshotPending = [h \in Hubs |-> FALSE]
    /\ hubCap = [h \in Hubs |-> IF h = 1 THEN maxReadings ELSE 0]
    /\ InitRetry

InitUpsert == InitConnected /\ StatsNotFollowed

PushReading(reading) ==
    /\ NewReadingHandler(reading, maxReadings)
    /\ UNCHANGED <<alerts, loading, signalRConnected, maxReadings>>
    /\ UNCHANGED hubVars
    /\ UNCHANGED retryVars

UpsertStep == \E reading \in KeyedReadings : PushReading(reading)

NextUpsert == UpsertStep

SpecUpsert == InitUpsert /\ [][NextUpsert]_vars

---------------------------------------------------------------------------
(* The derived metrics alone: a stream of novel readings, each with the    *)
(* next id and its own timestamp, temperatures and speeds arbitrary.       *)

NextSampleId == IF Len(readings) = 0 THEN 1 ELSE readings[1].id + 1

StreamReading ==
    \E c \in Temperatures, s \in Speeds :
        /\ NextSampleId <= MaxId
        /\ PushReading(MotorReading(NextSampleId, NextSampleId, c, s))

NextStream == StreamReading

SpecStream == InitUpsert /\ [][NextStream]_vars

---------------------------------------------------------------------------
(* The tiers alone: a stream of novel readings whose temperature or speed  *)
(* sits on, just below or just above a threshold.                          *)

ThresholdTemperatures == {29, 30, 49, 50, 75, 76, 85, 86}
ThresholdSpeeds == {499, 500, 999, 1000, 1499, 1500, 1501, 2500, 2501, 3000, 3001}

\* one of the two measurements on a threshold, the other mid-range
ThresholdPayloads ==
    {<<c, 2000>> : c \in ThresholdTemperatures} \cup {<<60, s>> : s \in ThresholdSpeeds}

TierReading ==
    \E p \in ThresholdPayloads :
        /\ NextSampleId <= MaxTierSample
        /\ PushReading(MotorReading(NextSampleId, NextSampleId, p[1], p[2]))

NextTiers == TierReading

SpecTiers == InitUpsert /\ [][NextTiers]_vars

---------------------------------------------------------------------------
(* The advisory alone: readings with arbitrary ids and timestamps whose    *)
(* temperature is 80, just above it or well above it.                      *)

AdvisoryTemperatures == {80, 81, 90}

AdvisoryReadings ==
    {MotorReading(i, t, c, 2000) :
        i \in 1..MaxAdvisoryKey, t \in 1..MaxAdvisoryKey, c \in AdvisoryTemperatures}

AdvisoryStep == \E reading \in AdvisoryReadings : PushReading(reading)

NextAdvisory == AdvisoryStep

SpecAdvisory == InitUpsert /\ [][NextAdvisory]_vars

---------------------------------------------------------------------------
(* The reconnect loop of one hub: SignalR asks the policy for the delay    *)
(* before every attempt, with the count of failed attempts so far.         *)

AttemptMilliseconds == {0, 100, 200}

\* hub.onreconnecting(() => setSignalRConnected(false))
OnReconnecting(h) ==
    /\ hubState[h] = "Connected"
    /\ hubState' = [hubState EXCEPT ![h] = "Reconnecting"]
    /\ signalRConnected' = FALSE

\* hub.onreconnected(() => setSignalRConnected(true))
OnReconnected(h) ==
    /\ hubState[h] = "Reconnecting"
    /\ hubState' = [hubState EXCEPT ![h] = "Connected"]
    /\ signalRConnected' = TRUE

ConnectionDrops ==
    /\ OnReconnecting(1)
    /\ retryContext' = [previousRetryCount |-> 0, elapsedMilliseconds |-> 0]
    /\ retryDelay' = nextRetryDelayInMilliseconds(retryContext')
    /\ UNCHANGED lastOp
    /\ UNCHANGED <<readings, alerts, alert, loading, maxReadings>>
    /\ UNCHANGED <<mounted, gen, connectionStarted, startTimer, snapshotPending, hubCap>>
    /\ UNCHANGED statsVars

ReconnectAttemptFails ==
    \E d \in AttemptMilliseconds :
        /\ hubState[1] = "Reconnecting"
        /\ retryContext.previousRetryCount < MaxRetry
        /\ retryContext' =
              [previousRetryCount |-> retryContext.previousRetryCount + 1,
               elapsedMilliseconds |-> retryContext.elapsedMilliseconds + retryDelay + d]
        /\ retryDelay' = nextRetryDelayInMilliseconds(retryContext')
        /\ UNCHANGED lastOp
        /\ UNCHANGED coreVars
        /\ UNCHANGED hubVars
        /\ UNCHANGED statsVars

ReconnectAttemptSucceeds ==
    /\ OnReconnected(1)
    /\ UNCHANGED lastOp
    /\ UNCHANGED <<readings, alerts, alert, loading, maxReadings>>
    /\ UNCHANGED <<mounted, gen, connectionStarted, startTimer, snapshotPending, hubCap>>
    /\ UNCHANGED retryVars
    /\ UNCHANGED statsVars

NextRetry == ConnectionDrops \/ ReconnectAttemptFails \/ ReconnectAttemptSucceeds

SpecRetry == InitUpsert /\ [][NextRetry]_vars

---------------------------------------------------------------------------
(* The orchestrator: useEffect([maxReadings]) and the callbacks it leaves  *)
(* behind. Every callback closes over the hub and the maxReadings of the   *)
(* effect run that registered it; the setters are those of the state above.*)

\* an alert as the server pushes it
DeviceAlerts == {[id |-> 1, message |-> "overheat", acknowledged |-> FALSE]}

\* the response of GET /api/motor: the stored readings, one per id
RECURSIVE SeqsUpTo(_, _)
SeqsUpTo(S, n) ==
    IF n = 0 THEN {<<>>}
    ELSE LET shorter == SeqsUpTo(S, n - 1)
         IN  shorter \cup {Append(q, e) : q \in shorter, e \in S}

Snapshots ==
    {q \in SeqsUpTo(DeviceReadings, MaxSnapshot) :
        \A i, j \in 1..Len(q) : i # j => q[i].id # q[j].id}

\* stop has been called on hub h: its effect cleanup has run
Stopped(h) == h < gen \/ (h = gen /\ ~mounted)

\* the connection of hub h can deliver a server message
Delivering(h) ==
    \/ hubState[h] = "Connected"
    \/ hubState[h] = "Disconnecting" /\ connectionStarted[h]

\* .then((res) => { setReadings(res.data); setLoading(false); })
SnapshotResponse(h, data) ==
    /\ snapshotPending[h]
    /\ snapshotPending' = [snapshotPending EXCEPT ![h] = FALSE]
    /\ readings' = data
    /\ loading' = FALSE
    /\ lastOp' = "snapshot"
    /\ UNCHANGED <<alerts, alert, signalRConnected, maxReadings>>
    /\ UNCHANGED <<mounted, gen, hubState, connectionStarted, startTimer, hubCap>>
    /\ UNCHANGED retryVars
    /\ UNCHANGED statsVars

\* a catch branch that also empties the buffer
SnapshotErrorClearsBuffer(h) ==
    /\ snapshotPending[h]
    /\ snapshotPending' = [snapshotPending EXCEPT ![h] = FALSE]
    /\ readings' = <<>>
    /\ loading' = FALSE
    /\ UNCHANGED lastOp
    /\ UNCHANGED <<alerts, alert, signalRConnected, maxReadings>>
    /\ UNCHANGED <<mounted, gen, hubState, connectionStarted, startTimer, hubCap>>
    /\ UNCHANGED retryVars
    /\ UNCHANGED statsVars

\* .catch(() => { setLoading(false); })
SnapshotError(h) ==
    /\ snapshotPending[h]
    /\ snapshotPending' = [snapshotPending EXCEPT ![h] = FALSE]
    /\ loading' = FALSE
    /\ UNCHANGED lastOp
    /\ UNCHANGED <<readings, alerts, alert, signalRConnected, maxReadings>>
    /\ UNCHANGED <<mounted, gen, hubState, connectionStarted, startTimer, hubCap>>
    /\ UNCHANGED retryVars
    /\ UNCHANGED statsVars

\* setTimeout(() => { hub.start()... }, 100): the timer fires, start() begins
StartTimerFires(h) ==
    /\ startTimer[h]
    /\ hubState[h] = "Disconnected"
    /\ startTimer' = [startTimer EXCEPT ![h] = FALSE]
    /\ hubState' = [hubState EXCEPT ![h] = "Connecting"]
    /\ UNCHANGED lastOp
    /\ UNCHANGED coreVars
    /\ UNCHANGED <<mounted, gen, connectionStarted, snapshotPending, hubCap>>
    /\ UNCHANGED retryVars
    /\ UNCHANGED statsVars

\* hub.start().then(() => { setSignalRConnected(true); })
StartSucceeds(h) ==
    /\ hubState[h] = "Connecting"
    /\ hubState' = [hubState EXCEPT ![h] = "Connected"]
    /\ connectionStarted' = [connectionStarted EXCEPT ![h] = TRUE]
    /\ signalRConnected' = TRUE
    /\ UNCHANGED lastOp
    /\ UNCHANGED <<readings, alerts, alert, loading, maxReadings>>
    /\ UNCHANGED <<mounted, gen, startTimer, snapshotPending, hubCap>>
    /\ UNCHANGED retryVars
    /\ UNCHANGED statsVars

\* hub.start().catch(() => { setSignalRConnected(false); }): the handshake
\* failed, or stop() was called while it was under way
StartFails(h) ==
    /\ \/ hubState[h] = "Connecting"
       \/ hubState[h] = "Disconnecting" /\ ~connectionStarted[h]
    /\ hubState' = [hubState EXCEPT ![h] = "Disconnected"]
    /\ signalRConnected' = FALSE
    /\ UNCHANGED lastOp
    /\ UNCHANGED <<readings, alerts, alert, loading, maxReadings>>
    /\ UNCHANGED <<mounted, gen, connectionStarted, startTimer, snapshotPending, hubCap>>
    /\ UNCHANGED retryVars
    /\ UNCHANGED statsVars

\* a reconnecting callback that also drops the advisory
ConnectionLostClearsAdvisory(h) ==
    /\ OnReconnecting(h)
    /\ alert' = <<>>
    /\ UNCHANGED lastOp
    /\ UNCHANGED <<readings, alerts, loading, maxReadings>>
    /\ UNCHANGED <<mounted, gen, connectionStarted, startTimer, snapshotPending, hubCap>>
    /\ UNCHANGED retryVars
    /\ UNCHANGED statsVars

\* hub.onreconnecting: the transport reports a drop
ConnectionLost(h) ==
    /\ OnReconnecting(h)
    /\ UNCHANGED lastOp
    /\ UNCHANGED <<readings, alerts, alert, loading, maxReadings>>
    /\ UNCHANGED <<mounted, gen, connectionStarted, startTimer, snapshotPending, hubCap>>
    /\ UNCHANGED retryVars
    /\ UNCHANGED statsVars

\* hub.onreconnected: the transport reports the reconnect
Reconnected(h) ==
    /\ OnReconnected(h)
    /\ UNCHANGED lastOp
    /\ UNCHANGED <<readings, alerts, alert, loading, maxReadings>>
    /\ UNCHANGED <<mounted, gen, connectionStarted, startTimer, snapshotPending, hubCap>>
    /\ UNCHANGED retryVars
    /\ UNCHANGED statsVars

\* hub.onclose(() => { setSignalRConnected(false); }): a stop() of a started
\* connection completes
CloseCompletes(h) ==
    /\ hubState[h] = "Disconnecting"
    /\ connectionStarted[h]
    /\ hubState' = [hubState EXCEPT ![h] = "Disconnected"]
    /\ connectionStarted' = [connectionStarted EXCEPT ![h] = FALSE]
    /\ signalRConnected' = FALSE
    /\ UNCHANGED lastOp
    /\ UNCHANGED <<readings, alerts, alert, loading, maxReadings>>
    /\ UNCHANGED <<mounted, gen, startTimer, snapshotPending, hubCap>>
    /\ UNCHANGED retryVars
    /\ UNCHANGED statsVars

\* hub.on("NewReading", ...) of hub h, with the maxReadings it captured
NewReading(h, reading) ==
    /\ Delivering(h)
    /\ NewReadingHandler(reading, hubCap[h])
    /\ UNCHANGED <<alerts, loading, signalRConnected, maxReadings>>
    /\ UNCHANGED hubVars
    /\ UNCHANGED retryVars

\* variants of the updaters below, each dropping one of their cases
AddAlertAlways(prev, a) == <<a>> \o prev

AddAlertReplaces(prev, a) ==
    IF \E k \in 1..Len(prev) : prev[k].id = a.id
    THEN [k \in 1..Len(prev) |-> IF prev[k].id = a.id THEN a ELSE prev[k]]
    ELSE <<a>> \o prev

AcknowledgeAll(prev, alertId) ==
    IF \E k \in 1..Len(prev) : prev[k].id = alertId
    THEN [k \in 1..Len(prev) |-> [prev[k] EXCEPT !.acknowledged = TRUE]]
    ELSE prev

\* the setAlerts updater of hub.on("NewAlert")
AddAlert(prev, a) ==
    IF \E k \in 1..Len(prev) : prev[k].id = a.id THEN prev ELSE <<a>> \o prev

\* hub.on("NewAlert", ...)
NewAlert(h, a) ==
    /\ Delivering(h)
    /\ alerts' = AddAlert(alerts, a)
    /\ UNCHANGED lastOp
    /\ UNCHANGED <<readings, alert, loading, signalRConnected, maxReadings>>
    /\ UNCHANGED hubVars
    /\ UNCHANGED retryVars
    /\ UNCHANGED statsVars

\* the setAlerts updater of acknowledgeAlert
Acknowledge(prev, alertId) ==
    [k \in 1..Len(prev) |->
        IF prev[k].id = alertId THEN [prev[k] EXCEPT !.acknowledged = TRUE] ELSE prev[k]]

\* acknowledgeAlert, called by AlertSystem's onAcknowledge
AcknowledgeAlert(alertId) ==
    /\ mounted
    /\ alerts' = Acknowledge(alerts, alertId)
    /\ UNCHANGED lastOp
    /\ UNCHANGED <<readings, alert, loading, signalRConnected, maxReadings>>
    /\ UNCHANGED hubVars
    /\ UNCHANGED retryVars
    /\ UNCHANGED statsVars

\* return () => { hub.stop().catch(console.error); }: what stop() does at
\* once; a started or starting connection closes later (CloseCompletes,
\* StartFails), a connection waiting to reconnect closes at once and runs the
\* close callbacks, a connection never started stays as it is
StopHub(h) ==
    /\ hubState' = [hubState EXCEPT ![h] =
           IF @ \in {"Connecting", "Connected"} THEN "Disconnecting"
           ELSE IF @ = "Reconnecting" THEN "Disconnected" ELSE @]
    /\ connectionStarted' = [connectionStarted EXCEPT ![h] =
           IF hubState[h] = "Reconnecting" THEN FALSE ELSE @]
    /\ signalRConnected' = IF hubState[h] = "Reconnecting" THEN FALSE ELSE signalRConnected

\* setMaxReadings(n) from the settings: the effect cleanup of the current
\* generation runs, then the effect body with the new maxReadings
SetMaxReadings(n) ==
    /\ mounted
    /\ n # maxReadings
    /\ gen < MaxGen
    /\ maxReadings' = n
    /\ gen' = gen + 1
    /\ hubState' = [hubState EXCEPT
           ![gen] = IF @ \in {"Connecting", "Connected"} THEN "Disconnecting"
                    ELSE IF @ = "Reconnecting" THEN "Disconnected" ELSE @,
           ![gen + 1] = "Disconnected"]
    /\ connectionStarted' = [connectionStarted EXCEPT ![gen] =
           IF hubState[gen] = "Reconnecting" THEN FALSE ELSE @]
    /\ signalRConnected' = IF hubState[gen] = "Reconnecting" THEN FALSE ELSE signalRConnected
    /\ snapshotPending' = [snapshotPending EXCEPT ![gen + 1] = TRUE]
    /\ startTimer' = [startTimer EXCEPT ![gen + 1] = TRUE]
    /\ hubCap' = [hubCap EXCEPT ![gen + 1] = n]
    /\ LoadDashboardStats
    /\ UNCHANGED lastOp
    /\ UNCHANGED <<readings, alerts, alert, loading, mounted>>
    /\ UNCHANGED retryVars

\* the component unmounts: the effect cleanup runs
Unmount ==
    /\ mounted
    /\ mounted' = FALSE
    /\ StopHub(gen)
    /\ UNCHANGED lastOp
    /\ UNCHANGED <<readings, alerts, alert, loading, maxReadings>>
    /\ UNCHANGED <<gen, startTimer, snapshotPending, hubCap>>
    /\ UNCHANGED retryVars
    /\ UNCHANGED statsVars

Init == InitCore /\ InitHubs /\ InitRetry /\ StatsNotFollowed

Next ==
    \/ \E h \in Hubs : \E data \in Snapshots : SnapshotResponse(h, data)
    \/ \E h \in Hubs : SnapshotError(h)
    \/ \E h \in Hubs : StartTimerFires(h)
    \/ \E h \in Hubs : StartSucceeds(h)
    \/ \E h \in Hubs : StartFails(h)
    \/ \E h \in Hubs : ConnectionLost(h)
    \/ \E h \in Hubs : Reconnected(h)
    \/ \E h \in Hubs : CloseCompletes(h)
    \/ \E h \in Hubs : \E reading \in DeviceReadings : NewReading(h, reading)
    \/ \E h \in Hubs : \E a \in DeviceAlerts : NewAlert(h, a)
    \/ \E a \in DeviceAlerts : AcknowledgeAlert(a.id)
    \/ \E n \in Settings : SetMaxReadings(n)
    \/ Unmount

Spec == Init /\ [][Next]_vars

---------------------------------------------------------------------------
(* The snapshot fetch and the stream: the orchestrator without connection  *)
(* drops, alerts and unmount.                                              *)

NextFetch ==
    \/ \E h \in Hubs : \E data \in Snapshots : SnapshotResponse(h, data)
    \/ \E h \in Hubs : SnapshotError(h)
    \/ \E h \in Hubs : StartTimerFires(h)
    \/ \E h \in Hubs : StartSucceeds(h)
    \/ \E h \in Hubs : \E reading \in DeviceReadings : NewReading(h, reading)
    \/ \E n \in Settings : SetMaxReadings(n)

SpecFetch == Init /\ [][NextFetch]_vars

---------------------------------------------------------------------------
(* The transport and the stream: the orchestrator without the snapshot     *)
(* continuations and the acknowledgements, its readings hot enough to      *)
(* raise the advisory.                                                     *)

HotReadings == {MotorReading(i, i, 90, 2000) : i \in 1..MaxSample}

NextTransport ==
    \/ \E h \in Hubs : StartTimerFires(h)
    \/ \E h \in Hubs : StartSucceeds(h)
    \/ \E h \in Hubs : StartFails(h)
    \/ \E h \in Hubs : ConnectionLost(h)
    \/ \E h \in Hubs : Reconnected(h)
    \/ \E h \in Hubs : CloseCompletes(h)
    \/ \E h \in Hubs : \E reading \in HotReadings : NewReading(h, reading)
    \/ \E h \in Hubs : \E a \in DeviceAlerts : NewAlert(h, a)
    \/ \E n \in Settings : SetMaxReadings(n)
    \/ Unmount

SpecTransport == Init /\ [][NextTransport]_vars

---------------------------------------------------------------------------
(* The dashboard stats alone: one connected hub pushing readings, each     *)
(* push issuing a stats request, the answers arriving in any order.        *)

StatsRequests == 1..MaxStatsRequests

\* setDashboardStats(response.data) after the await of request k
StatsResponse(k) ==
    /\ k \in statsInFlight
    /\ statsInFlight' = statsInFlight \ {k}
    /\ dashboardStats' = k
    /\ UNCHANGED statsIssued
    /\ UNCHANGED lastOp
    /\ UNCHANGED coreVars
    /\ UNCHANGED hubVars
    /\ UNCHANGED retryVars

\* catch (error) { console.error(...) } of request k
StatsError(k) ==
    /\ k \in statsInFlight
    /\ statsInFlight' = statsInFlight \ {k}
    /\ UNCHANGED <<dashboardStats, statsIssued>>
    /\ UNCHANGED lastOp
    /\ UNCHANGED coreVars
    /\ UNCHANGED hubVars
    /\ UNCHANGED retryVars

StatsPush == \E reading \in DeviceReadings : PushReading(reading)

NextStats ==
    \/ StatsPush
    \/ \E k \in StatsRequests : StatsResponse(k)
    \/ \E k \in StatsRequests : StatsError(k)

InitStatsStream == InitConnected /\ InitStats

SpecStats == InitStatsStream /\ [][NextStats]_vars

---------------------------------------------------------------------------
(* The alert registry alone: one connected hub raising alerts with several *)
(* ids, and the operator acknowledging them.                               *)

AlertIds == 1..MaxAlert

\* the alerts the hub raises: unacknowledged, the message arbitrary
RaisedAlerts ==
    {[id |-> i, message |-> m, acknowledged |-> FALSE] :
        i \in AlertIds, m \in {"overheat", "overspeed"}}

HasId(prev, alertId) == \E k \in 1..Len(prev) : prev[k].id = alertId

InitAlerts == InitUpsert /\ maxReadings = 1

\* hub.on("NewAlert", ...) of the connected hub
AlertRaised(a) ==
    /\ Delivering(1)
    /\ alerts' = AddAlert(alerts, a)
    /\ lastOp' = IF HasId(alerts, a.id) THEN "resend" ELSE "raise"
    /\ UNCHANGED <<readings, alert, loading, signalRConnected, maxReadings>>
    /\ UNCHANGED hubVars
    /\ UNCHANGED retryVars
    /\ UNCHANGED statsVars

\* acknowledgeAlert(alertId)
AlertAcknowledged(alertId) ==
    /\ mounted
    /\ alerts' = Acknowledge(alerts, alertId)
    /\ lastOp' = IF HasId(alerts, alertId) THEN "acknowledge" ELSE "acknowledgeAbsent"
    /\ UNCHANGED <<readings, alert, loading, signalRConnected, maxReadings>>
    /\ UNCHANGED hubVars
    /\ UNCHANGED retryVars
    /\ UNCHANGED statsVars

NextAlerts ==
    \/ \E a \in RaisedAlerts : AlertRaised(a)
    \/ \E alertId \in AlertIds : AlertAcknowledged(alertId)

SpecAlerts == InitAlerts /\ [][NextAlerts]_vars

---------------------------------------------------------------------------
(* Properties of the orchestrator, checked under Spec *)

\* C1: in every reachable state of the orchestrator the readings buffer
\* holds at most maxReadings entries.
BufferWithinMaxReadings == Len(readings) <= maxReadings

\* a timer, start outcome, connection callback, handler or snapshot
\* continuation registered by the effect run of generation h takes a step
CallbackOf(h) ==
    \/ StartTimerFires(h)
    \/ StartSucceeds(h)
    \/ StartFails(h)
    \/ ConnectionLost(h)
    \/ Reconnected(h)
    \/ CloseCompletes(h)
    \/ \E reading \in DeviceReadings : NewReading(h, reading)
    \/ \E a \in DeviceAlerts : NewAlert(h, a)
    \/ \E data \in Snapshots : SnapshotResponse(h, data)
    \/ SnapshotError(h)

\* C10: once the cleanup of a generation has run, no timer, start outcome,
\* connection callback, handler or snapshot response of that generation
\* changes the connected flag, the readings buffer or the alerts.
StoppedGenerationIsInert ==
    [][\A h \in Hubs :
          (Stopped(h) /\ CallbackOf(h))
          => UNCHANGED <<signalRConnected, readings, alerts>>]_vars

\* C11: the snapshot response is merged, not written over the buffer: a
\* reading that a push has just put in front of the buffer, and whose id and
\* timestamp are not in the snapshot, is still in the buffer after the
\* snapshot is applied, when the capacity has room for both.
SnapshotKeepsPushedReading ==
    [][\A h \in Hubs : \A data \in Snapshots :
          (/\ SnapshotResponse(h, data)
           /\ lastOp = "prepend"
           /\ Len(readings) + Len(data) <= maxReadings
           /\ \A k \in 1..Len(data) :
                 /\ data[k].id # readings[1].id
                 /\ data[k].timestamp # readings[1].timestamp)
          => \E j \in 1..Len(readings') : readings'[j] = readings[1]]_vars

\* C14: a change of maxReadings discards the buffer: once the cleanup and
\* the new effect run are through, and before the fresh snapshot or a push
\* has delivered anything, the buffer holds none of the readings it held
\* before the change.
CapacityChangeDiscardsBuffer ==
    [][\A n \in Settings :
          SetMaxReadings(n)
          => \A i \in 1..Len(readings) :
                ~\E j \in 1..Len(readings') : readings'[j] = readings[i]]_vars

\* C15: while the component is mounted, the connected flag is true only if
\* the connection of the current effect run is Connected; it is false while
\* that connection is Disconnected, Connecting or Reconnecting, also after a
\* change of maxReadings.
ConnectedFlagOnlyWhileConnected ==
    (mounted /\ signalRConnected) => hubState[gen] = "Connected"

\* C16: a connection that has been stopped is Disconnected, or on its way
\* there, whatever state it was stopped in: it is never Connecting,
\* Connected or Reconnecting afterwards.
StoppedHubIsDisconnected ==
    \A h \in Hubs :
        Stopped(h) => hubState[h] \in {"Disconnected", "Disconnecting"}

\* C17: once stop has been called on a hub, its start timer never fires
\* into start(): no start() is invoked on a stopped hub.
NoStartAfterStop ==
    [][\A h \in Hubs : Stopped(h) => ~StartTimerFires(h)]_vars

\* C24: when maxReadings is lowered below the length of the buffer, the
\* reconfiguration itself truncates the buffer to the new capacity.
LoweredCapacityTruncatesAtOnce ==
    [][\A n \in Settings :
          (SetMaxReadings(n) /\ n < Len(readings))
          => readings' = Slice(readings, n)]_vars

\* C25: every novel reading is truncated against the maxReadings in force
\* when it is inserted, whichever hub delivers it, never against the value
\* a handler captured before maxReadings changed.
NovelInsertUsesCurrentCapacity ==
    [][\A h \in Hubs : \A reading \in DeviceReadings :
          (NewReading(h, reading) /\ UpsertBranch(readings, reading) = "prepend")
          => readings' = Slice(<<reading>> \o readings, maxReadings)]_vars

\* C29: after a change of maxReadings, whenever the hub of the current
\* effect run is Connected the connected flag is true, whatever callbacks
\* of the previous hub have run since.
FlagTrueWhileCurrentHubConnected ==
    (mounted /\ gen > 1 /\ hubState[gen] = "Connected") => signalRConnected

---------------------------------------------------------------------------
(* Properties of the reconciler, checked under SpecUpsert *)

\* C2: from an empty buffer and with a fixed capacity, after any sequence of
\* upserts the buffer length never exceeds the capacity.
UpsertLengthWithinCapacity == Len(readings) <= maxReadings

\* a novel reading has just been prepended to a full buffer of capacity >= 2
UpsertFillsCapacity ==
    lastOp = "prepend" /\ maxReadings >= 2 /\ Len(readings) = maxReadings

\* C3: from an empty buffer, after any sequence of upserts no two entries
\* of the buffer have the same id.
NoDuplicateIds ==
    \A i, j \in 1..Len(readings) : i # j => readings[i].id # readings[j].id

\* an id hit has just replaced an entry of a buffer of two or more
IdHitAmongSeveral == lastOp = "replaceId" /\ Len(readings) >= 2

\* C4: from an empty buffer, after any sequence of upserts no two entries
\* of the buffer have the same timestamp.
NoDuplicateTimestamps ==
    \A i, j \in 1..Len(readings) :
        i # j => readings[i].timestamp # readings[j].timestamp

\* C5: if the entry at index i has the incoming reading's id, the upsert
\* returns a buffer of the same length with the incoming reading at index i
\* and every other index unchanged.
IdHitReplacesInPlace ==
    [][\A reading \in KeyedReadings : \A i \in 1..Len(readings) :
          (PushReading(reading) /\ readings[i].id = reading.id)
          => /\ Len(readings') = Len(readings)
             /\ readings'[i] = reading
             /\ \A k \in 1..Len(readings) : k # i => readings'[k] = readings[k]]_vars

\* an id hit has replaced the second entry with a reading of another timestamp
IdHitBehindFront ==
    /\ lastOp = "replaceId"
    /\ Len(readings) >= 2
    /\ readings[2].id = 1
    /\ readings[2].timestamp = 3

NovelPrependsAndEvictsOldest ==
    [][\A reading \in KeyedReadings :
          (/\ PushReading(reading)
           /\ \A k \in 1..Len(readings) :
                 readings[k].id # reading.id /\ readings[k].timestamp # reading.timestamp)
          => /\ Len(readings') = Min(Len(readings) + 1, maxReadings)
             /\ readings'[1] = reading
             /\ \A k \in 2..Len(readings') : readings'[k] = readings[k - 1]]_vars

\* capacity 2: C has just been prepended in front of B
NovelInFrontAtCapacityTwo ==
    /\ lastOp = "prepend"
    /\ maxReadings = 2
    /\ Len(readings) = 2
    /\ readings[1].id = 3
    /\ readings[2].id = 2

\* C23: when the incoming reading's id is that of the entry at index i and
\* its timestamp that of another entry at index j, only index i is replaced
\* and entry j stays; and whenever the id or the timestamp is found, the
\* length is unchanged and every entry but the replaced one stays where it
\* was.
IdWinsOverTimestamp ==
    [][\A reading \in KeyedReadings :
          PushReading(reading)
          => /\ \A i, j \in 1..Len(readings) :
                   (/\ i # j
                    /\ readings[i].id = reading.id
                    /\ readings[j].timestamp = reading.timestamp)
                   => /\ readings'[i] = reading
                      /\ readings'[j] = readings[j]
             /\ UpsertBranch(readings, reading) # "prepend"
                   => /\ Len(readings') = Len(readings)
                      /\ \E i \in 1..Len(readings) :
                            \A k \in 1..Len(readings) :
                                k # i => readings'[k] = readings[k]]_vars

\* an id hit carried the timestamp of the other entry, which has stayed
IdHitWithForeignTimestamp ==
    /\ lastOp = "replaceId"
    /\ Len(readings) = 2
    /\ readings[1].id # readings[2].id
    /\ readings[1].timestamp = readings[2].timestamp

\* C27: in every state the timestamps of the buffer are non-increasing
\* from the first index to the last, so the first entry has the latest
\* timestamp.
NewestTimestampFirst ==
    \A i, j \in 1..Len(readings) :
        i < j => readings[i].timestamp >= readings[j].timestamp

\* C30: for every buffer and every reading, whichever branch the reading
\* takes, applying the updater twice with the same reading and capacity
\* gives the buffer that applying it once gives.
UpsertIsIdempotent ==
    \A reading \in KeyedReadings :
        LET once == Upsert(readings, reading, maxReadings)
        IN  Upsert(once, reading, maxReadings) = once

\* a full buffer of three whose front reading has arrived again
FrontReadingDeliveredAgain ==
    /\ lastOp = "replaceId"
    /\ maxReadings = 3
    /\ Len(readings) = 3
    /\ readings[1].id = 1
    /\ readings[1].timestamp = 1

---------------------------------------------------------------------------
(* Properties of the derived metrics, checked under SpecStream *)

\* the lowest index whose entry attains the extreme of field f
FirstWith(r, Attains(_)) ==
    CHOOSE k \in 1..Len(r) : Attains(r[k]) /\ \A j \in 1..(k - 1) : ~Attains(r[j])

\* C8: for each of the four extrema, when several entries tie for the
\* extreme value the reported reading is the first of them in buffer order.
ExtremaTieBreakFirst ==
    Len(readings) > 0 =>
        LET IsMaxTemp(e) == \A k \in 1..Len(readings) : e.temperature >= readings[k].temperature
            IsMinTemp(e) == \A k \in 1..Len(readings) : e.temperature <= readings[k].temperature
            IsMaxRpm(e) == \A k \in 1..Len(readings) : e.speed >= readings[k].speed
            IsMinRpm(e) == \A k \in 1..Len(readings) : e.speed <= readings[k].speed
        IN  /\ highestTemp = readings[FirstWith(readings, IsMaxTemp)]
            /\ lowestTemp = readings[FirstWith(readings, IsMinTemp)]
            /\ highestRpm = readings[FirstWith(readings, IsMaxRpm)]
            /\ lowestRpm = readings[FirstWith(readings, IsMinRpm)]

\* C8, the spec's example: the highest temperature of [90, 20, 90] is the
\* entry at the first index
HighestTempOfTieIsFirst ==
    (/\ Len(readings) = 3
     /\ readings[1].temperature = 90
     /\ readings[2].temperature = 20
     /\ readings[3].temperature = 90)
    => highestTemp = readings[1]

\* C21: the four extrema are all null exactly when the buffer is empty;
\* when it is not, each is an entry of the buffer whose temperature (speed)
\* is at least, for the highest, or at most, for the lowest, that of every
\* entry of the same buffer.
ExtremaBoundTheBuffer ==
    LET Entries == {readings[k] : k \in 1..Len(readings)}
        extrema == {highestTemp, lowestTemp, highestRpm, lowestRpm}
    IN  /\ readings = <<>> => extrema = {Null}
        /\ readings # <<>> =>
              /\ Null \notin extrema
              /\ extrema \subseteq Entries
              /\ \A e \in Entries :
                    /\ highestTemp.temperature >= e.temperature
                    /\ lowestTemp.temperature <= e.temperature
                    /\ highestRpm.speed >= e.speed
                    /\ lowestRpm.speed <= e.speed

\* the hottest reading is behind the front of the buffer, the fastest in front
ExtremaAtDifferentIndices ==
    /\ Len(readings) = 2
    /\ readings[1].temperature = 20
    /\ readings[2].temperature = 90
    /\ readings[1].speed = 3500
    /\ readings[2].speed = 1000
    /\ highestTemp = readings[2]
    /\ highestRpm = readings[1]

---------------------------------------------------------------------------
(* Properties of the snapshot fetch, checked under SpecFetch *)

\* C18: a failed snapshot fetch leaves the buffer exactly as it was and
\* clears loading, and a snapshot request is only ever issued by an effect
\* run: after the failure no request is pending until maxReadings changes.
FailedSnapshotKeepsBuffer ==
    /\ [][\A h \in Hubs :
             SnapshotError(h)
             => /\ readings' = readings
                /\ loading' = FALSE
                /\ ~snapshotPending'[h]]_vars
    /\ [][\A h \in Hubs :
             (~snapshotPending[h] /\ snapshotPending'[h])
             => \E n \in Settings : SetMaxReadings(n)]_vars

\* the first fetch has failed before anything wrote the buffer
FirstSnapshotFailed ==
    /\ lastOp = "mount"
    /\ ~loading
    /\ ~snapshotPending[1]
    /\ readings = <<>>

---------------------------------------------------------------------------
(* Properties of the transport callbacks, checked under SpecTransport *)

\* C26: a start success, a start failure, a close, a reconnecting and a
\* reconnected callback each leave the readings buffer, the alerts registry
\* and the advisory unchanged.
TransportEventsKeepData ==
    [][\A h \in Hubs :
          (\/ StartSucceeds(h)
           \/ StartFails(h)
           \/ CloseCompletes(h)
           \/ ConnectionLost(h)
           \/ Reconnected(h))
          => UNCHANGED <<readings, alerts, alert>>]_vars

\* the connection has dropped with readings, an alert and an advisory held
DroppedWithDataHeld ==
    /\ hubState[1] = "Reconnecting"
    /\ readings # <<>>
    /\ alerts # <<>>
    /\ alert # <<>>

---------------------------------------------------------------------------
(* Properties of the dashboard stats, checked under SpecStats *)

\* C28: every pushed reading issues one stats request; the answer to an
\* older request never replaces stored stats that came from a newer
\* request; a failed request leaves the stored stats unchanged.
StatsFromLatestAnsweredRequest ==
    /\ [][\A reading \in DeviceReadings :
             (PushReading(reading) /\ statsIssued < MaxStatsRequests)
             => /\ statsIssued' = statsIssued + 1
                /\ statsInFlight' = statsInFlight \cup {statsIssued'}]_vars
    /\ [][\A k \in StatsRequests :
             (StatsResponse(k) /\ k < dashboardStats)
             => dashboardStats' = dashboardStats]_vars
    /\ [][\A k \in StatsRequests :
             StatsError(k) => dashboardStats' = dashboardStats]_vars

---------------------------------------------------------------------------
(* Properties of the alert registry, checked under SpecAlerts *)

\* C12: acknowledging an id that is not in the registry leaves the registry
\* as it is; acknowledging an id that is in it sets acknowledged on the
\* entry with that id only, and keeps the ids, the messages, the other
\* flags, the length and the order.
AcknowledgeFlipsOnlyTheMatch ==
    [][\A alertId \in AlertIds :
          AlertAcknowledged(alertId)
          => /\ Len(alerts') = Len(alerts)
             /\ \A k \in 1..Len(alerts) :
                   /\ alerts'[k].id = alerts[k].id
                   /\ alerts'[k].message = alerts[k].message
                   /\ alerts'[k].acknowledged =
                          (alerts[k].acknowledged \/ alerts[k].id = alertId)
             /\ ~HasId(alerts, alertId) => alerts' = alerts]_vars

\* the second of several alerts has been acknowledged, the first has not
AcknowledgedBehindFront ==
    /\ lastOp = "acknowledge"
    /\ Len(alerts) >= 2
    /\ alerts[2].acknowledged
    /\ ~alerts[1].acknowledged

\* C13: a NewAlert whose id is in the registry leaves the registry as it
\* is, and in every state no two alerts of the registry have the same id.
ResendLeavesRegistryUnchanged ==
    /\ [][\A a \in RaisedAlerts :
             (AlertRaised(a) /\ HasId(alerts, a.id)) => alerts' = alerts]_vars
    /\ [](\A i, j \in 1..Len(alerts) : i # j => alerts[i].id # alerts[j].id)

\* an alert has been raised again with an acknowledged alert among several
ResendAmongAcknowledged ==
    /\ lastOp = "resend"
    /\ Len(alerts) >= 2
    /\ alerts[2].acknowledged

\* C19: once an alert of the registry is acknowledged, the registry holds
\* it acknowledged after every NewAlert and every acknowledgeAlert.
AcknowledgementIsOneWay ==
    [][\A k \in 1..Len(alerts) :
          alerts[k].acknowledged
          => /\ HasId(alerts', alerts[k].id)
             /\ \A j \in 1..Len(alerts') :
                   alerts'[j].id = alerts[k].id => alerts'[j].acknowledged]_vars

\* the only alert of the registry, acknowledged, has been raised again
AcknowledgedAlertResent ==
    /\ lastOp = "resend"
    /\ Len(alerts) = 1
    /\ alerts[1].acknowledged

---------------------------------------------------------------------------
(* Properties of the tiers, checked under SpecTiers *)

---------------------------------------------------------------------------
(* Properties of the advisory, checked under SpecAdvisory *)

\* C22: a pushed reading sets the high-temperature advisory if its
\* temperature is above 80 and leaves the advisory as it was if it is 80 or
\* less, whichever branch the updater took; the alerts registry is never
\* changed by it.
AdvisoryOnlyAbove80 ==
    [][\A reading \in AdvisoryReadings :
          PushReading(reading)
          => /\ reading.temperature > 80
                   => alert' = <<"High Temp", reading.temperature>>
             /\ reading.temperature <= 80 => alert' = alert
             /\ alerts' = alerts]_vars

\* a reading of 81 degrees has replaced the only entry by its id
AdvisoryRaisedByReplacement ==
    /\ lastOp = "replaceId"
    /\ Len(readings) = 1
    /\ readings[1].temperature = 81
    /\ alert = <<"High Temp", 81>>

---------------------------------------------------------------------------
(* Properties of the reconnect policy, checked under SpecRetry *)

\* C9: the reconnect delay depends on the attempt count n alone: 0 for n = 0,
\* 2000, 4000, 8000, 16000 for n = 1..4, 30000 for every n >= 5, and it never
\* exceeds 30000.
ReconnectDelayByAttemptCount ==
    LET n == retryContext.previousRetryCount
    IN  /\ n = 0 => retryDelay = 0
        /\ n = 1 => retryDelay = 2000
        /\ n = 2 => retryDelay = 4000
        /\ n = 3 => retryDelay = 8000
        /\ n = 4 => retryDelay = 16000
        /\ n >= 5 => retryDelay = 30000
        /\ retryDelay <= 30000

\* the sixth attempt waits for the cap, with time elapsed
CappedDelayReached ==
    /\ hubState[1] = "Reconnecting"
    /\ retryContext.previousRetryCount >= 5
    /\ retryContext.elapsedMilliseconds > 30000
    /\ retryDelay = 30000

=============================================================================
